---------------------------- MODULE Spec2Model ----------------------------
(***************************************************************************)
(* A model of chinese2pdf's text pipeline (src/chinese2pdf/text_formatter.py *)
(* with the tables of src/chinese2pdf/config.py).                          *)
(*                                                                         *)
(* A character is its Unicode code point (a natural number) and a Python   *)
(* str is a sequence of code points, so that the range tests of the code   *)
(* (U+4E00 <= ch <= U+9FFF, the regex classes) are the same               *)
(* comparisons here.  Markup the renderers build is kept structured (one   *)
(* record per macro call) instead of being flattened to LaTeX source.      *)
(*                                                                         *)
(* Each component has its own specification (SpecTone, SpecPara, ...):     *)
(* its Init draws the inputs from bounded sets and its actions run the     *)
(* component's code; the variables of the other components stay idle.      *)
(***************************************************************************)
EXTENDS Integers, Sequences, FiniteSets, TLC

VARIABLES
    pc,             \* position of the running component
    syl,            \* detect_tone: the syllable given
    tone,           \* detect_tone: the str returned (<<>> before the call)
    pysyl,          \* colorize_pinyin: the macro returned
    text,           \* the source text (parse_paragraphs, vocabulary)
    lineNo,         \* parse_paragraphs: index of the next line of text.splitlines()
    buffer,         \* parse_paragraphs: buffer
    paragraphs,     \* parse_paragraphs: paragraphs; the renderers' input
    para,           \* cut_mixed: the string s given
    lcut,           \* the segmenter: jieba.lcut restricted to the runs met
    pos,            \* cut_mixed: i, as a 1-based index into s
    tokens,         \* cut_mixed: the list returned; pinyin_only: tokens
    origin,         \* cut_mixed: for each token, the case of the loop that emitted it
    hsk_df,         \* the vocabulary table (a sequence of rows)
    rowNo,          \* build_hsk_map: index of the next row of df.iterrows()
    hsk_map,        \* build_hsk_map: hsk_map
    raised,         \* the exception a component ended with ("" for none)
    pIdx,           \* pinyin_only: index of the paragraph being rendered
    i,              \* pinyin_only: index of the next token (1-based)
    pieces,         \* pinyin_only: pieces
    pending_open,   \* pinyin_only: pending_open
    unitLog,        \* pinyin_only: history of the loop, one entry per token seen
    out,            \* pinyin_only / render_hanzi: out, one entry per paragraph
    result,         \* the markup a renderer returned ("\n\n".join(out))
    with_ruby,      \* render_hanzi: with_ruby
    vocab,          \* vocabulary: the groups returned (<<>> is the empty string)
    filled,         \* generate_pdf: what replaces each placeholder of the template
    cleanup,        \* generate_pdf: cleanup
    xelatex,        \* generate_pdf: how the compiler run ended and what it wrote
    tmpdir,         \* generate_pdf: the temporary directory and its files
    out_dir         \* generate_pdf: the files of the output directory

vars == << pc, syl, tone, pysyl, text, lineNo, buffer, paragraphs, para, lcut,
           pos, tokens, origin, hsk_df, rowNo, hsk_map, raised, pIdx, i, pieces,
           pending_open, unitLog, out, result, with_ruby, vocab, filled,
           cleanup, xelatex, tmpdir, out_dir >>

toneVars   == << syl, tone, pysyl >>
paraVars   == << text, lineNo, buffer, paragraphs >>
cutVars    == << para, lcut, pos, tokens, origin >>
hskVars    == << hsk_df, rowNo, hsk_map, raised >>
pinyinVars == << pIdx, i, pieces, pending_open, unitLog >>
outVars    == << out, result, with_ruby, vocab >>
docVars    == << filled, cleanup, xelatex, tmpdir, out_dir >>

---------------------------------------------------------------------------
(* Bounds of the model.                                                    *)
MaxSylLen  == 3     \* longest syllable given to detect_tone
MaxTextLen == 5     \* longest text given to parse_paragraphs
MaxParaLen == 4     \* longest paragraph given to cut_mixed
MaxRows    == 2     \* most rows of a vocabulary table
MaxDocLen  == 5     \* longest text given to pinyin_only
MaxRenderLen == 3   \* longest text given to render_hanzi and vocabulary
MaxSourceLen == 3   \* longest source text given to generate_pdf

---------------------------------------------------------------------------
(* Strings.                                                                *)

\* All sequences over S of length at most n.
SeqsUpTo(S, n) == UNION { [1..k -> S] : k \in 0..n }

RECURSIVE Flatten(_)
\* "".join(xs) for a sequence xs of strings.
Flatten(xs) == IF xs = << >> THEN << >> ELSE Head(xs) \o Flatten(Tail(xs))

\* The set of elements of a sequence.
Range(s) == { s[k] : k \in 1..Len(s) }

\* s[a:b] of Python, with 1-based a and b inclusive.
Slice(s, a, b) == IF a > b THEN << >> ELSE SubSeq(s, a, b)

---------------------------------------------------------------------------
(* config.py: character classes and tables.                               *)

\* HANZI_RUN = re.compile(r"[U+3400-U+9FFF]+"): the class of one character.
HANZI_RUN_CLASS == 13312..40959

\* is_hanzi: U+4E00 <= ch <= U+9FFF.
is_hanzi(ch) == 19968 <= ch /\ ch <= 40959

\* is_hanzi_word: all(is_hanzi(c) for c in token); True of the empty token.
is_hanzi_word(token) == \A k \in 1..Len(token) : is_hanzi(token[k])

\* The characters of PUNCT_OPEN_PATTERN's class.
PUNCT_OPEN_CLASS ==
    { 8220, 8216, 65288, 12298, 12296, 12304, 12302, 12300, 12310, 12308,
      65339, 65371 }

\* The characters of PUNCT_CLOSE_PATTERN's class.
PUNCT_CLOSE_CLASS ==
    { 65292, 12290, 65311, 65281, 65306, 65307, 12289, 8221, 8217, 65289,
      12299, 12297, 12305, 12303, 12301, 12311, 12309, 65341, 65373, 8230,
      8212 }

\* re.compile(r"^[cls]+$").match(s): one or more characters of the class up
\* to the end of s, where $ also matches before one trailing "\n" (10).
MatchesClassRun(s, cls) ==
    LET AllIn(n) == n >= 1 /\ \A k \in 1..n : s[k] \in cls
    IN  \/ AllIn(Len(s))
        \/ Len(s) >= 2 /\ s[Len(s)] = 10 /\ AllIn(Len(s) - 1)

PUNCT_OPEN_PATTERN(s)  == MatchesClassRun(s, PUNCT_OPEN_CLASS)
PUNCT_CLOSE_PATTERN(s) == MatchesClassRun(s, PUNCT_CLOSE_CLASS)

\* DIACRITIC_TO_TONE: diacritic vowel -> tone digit, as a one-character str.
DIACRITIC_TO_TONE ==
    LET T1 == { 257, 275, 299, 333, 363, 470 }    \* a-e-i-o-u-u: macron
        T2 == { 225, 233, 237, 243, 250, 472 }    \* acute
        T3 == { 462, 283, 464, 466, 468, 474 }    \* caron
        T4 == { 224, 232, 236, 242, 249, 476 }    \* grave
    IN  [ ch \in T1 \cup T2 \cup T3 \cup T4 |->
            IF ch \in T1 THEN << 49 >>
            ELSE IF ch \in T2 THEN << 50 >>
            ELSE IF ch \in T3 THEN << 51 >>
            ELSE << 52 >> ]

\* TONE_COLORS.get(tone, "black").
TONE_COLORS_get(t) ==
    IF t = << 49 >> THEN "red"
    ELSE IF t = << 50 >> THEN "green!50!black"
    ELSE IF t = << 51 >> THEN "blue"
    ELSE IF t = << 52 >> THEN "orange"
    ELSE IF t = << 53 >> THEN "gray"
    ELSE "black"

\* str.isdigit for one character: the ASCII digits and the superscript
\* digits of Latin-1 (the other Unicode digits are not in any alphabet used).
isdigit(ch) == ch \in 48..57 \/ ch \in { 178, 179, 185 }

---------------------------------------------------------------------------
(* Tone helpers.                                                           *)

RECURSIVE ScanDiacritic(_, _)
\* for ch in syl: if ch in DIACRITIC_TO_TONE: return ...; return "5"
ScanDiacritic(s, k) ==
    IF k > Len(s) THEN << 53 >>
    ELSE IF s[k] \in DOMAIN DIACRITIC_TO_TONE THEN DIACRITIC_TO_TONE[s[k]]
    ELSE ScanDiacritic(s, k + 1)

\* A variant that looks for a diacritic before it looks at the last digit.
detect_tone_diacritic_first(s) ==
    IF \E k \in 1..Len(s) : s[k] \in DOMAIN DIACRITIC_TO_TONE
    THEN ScanDiacritic(s, 1)
    ELSE IF Len(s) > 0 /\ isdigit(s[Len(s)]) THEN << s[Len(s)] >>
    ELSE << 53 >>

detect_tone(s) ==
    IF Len(s) > 0 /\ isdigit(s[Len(s)]) THEN << s[Len(s)] >>
    ELSE ScanDiacritic(s, 1)

\* colorize_pinyin: \pysyl{color}{syl}.
colorize_pinyin(s) ==
    [ k |-> "pysyl", s |-> s, color |-> TONE_COLORS_get(detect_tone(s)) ]

\* The characters syllables are drawn from: m a 0 3 9, a-acute (tone 2),
\* a-caron (tone 3).
SylAlphabet == { 109, 97, 48, 51, 57, 225, 462 }

NoItem == [ k |-> "none", s |-> << >>, color |-> "" ]

IdleTone   == syl = << >> /\ tone = << >> /\ pysyl = NoItem
IdlePara   == text = << >> /\ lineNo = 0 /\ buffer = << >> /\ paragraphs = << >>
IdleCut    == para = << >> /\ lcut = << >> /\ pos = 0 /\ tokens = << >>
              /\ origin = << >>
IdleHsk    == hsk_df = << >> /\ rowNo = 0 /\ hsk_map = << >> /\ raised = ""
IdlePinyin == pIdx = 0 /\ i = 0 /\ pieces = << >> /\ pending_open = << >>
              /\ unitLog = << >>
IdleOut    == out = << >> /\ result = << >> /\ with_ruby = FALSE
              /\ vocab = << >>
NoRun      == [ status |-> "none", wrote |-> { } ]
NoDir      == [ state |-> "none", files |-> { } ]
IdleDoc    == filled = << >> /\ cleanup = TRUE /\ xelatex = NoRun
              /\ tmpdir = NoDir /\ out_dir = { }

InitTone ==
    /\ pc = "tone_call"
    /\ syl \in SeqsUpTo(SylAlphabet, MaxSylLen)
    /\ tone = << >>
    /\ pysyl = NoItem
    /\ IdlePara /\ IdleCut /\ IdleHsk /\ IdlePinyin /\ IdleOut /\ IdleDoc

\* tone = detect_tone(syl), the first line of colorize_pinyin.
DetectTone ==
    /\ pc = "tone_call"
    /\ tone' = detect_tone(syl)
    /\ pc' = "tone_done"
    /\ UNCHANGED << syl, pysyl, paraVars, cutVars, hskVars, pinyinVars, outVars, docVars >>

\* The rest of colorize_pinyin: pick the colour and build the macro.
ColorizePinyin ==
    /\ pc = "tone_done"
    /\ pysyl' = colorize_pinyin(syl)
    /\ pc' = "colorized"
    /\ UNCHANGED << syl, tone, paraVars, cutVars, hskVars, pinyinVars, outVars, docVars >>

NextTone == DetectTone \/ ColorizePinyin

SpecTone == InitTone /\ [][NextTone]_vars

---------------------------------------------------------------------------
(* Tone classifier: claims.                                                *)

ToneClasses == { << 49 >>, << 50 >>, << 51 >>, << 52 >>, << 53 >> }

\* C3: detect_tone returns one of the five tone classes "1".."5" for every
\* input string.
C3_ToneAlwaysInClasses ==
    pc \in { "tone_done", "colorized" } => tone \in ToneClasses

\* The index of the leftmost character of s that is in the diacritic table
\* (0 when there is none).
LeftmostDiacritic(s) ==
    IF \E k \in 1..Len(s) : s[k] \in DOMAIN DIACRITIC_TO_TONE
    THEN CHOOSE k \in 1..Len(s) :
            /\ s[k] \in DOMAIN DIACRITIC_TO_TONE
            /\ \A j \in 1..(k - 1) : s[j] \notin DOMAIN DIACRITIC_TO_TONE
    ELSE 0

\* C4: a trailing digit wins, even over a diacritic; otherwise the leftmost
\* character of the diacritic table decides; otherwise the result is "5".
\* "ma" gives 5, "ma3" gives 3 and "m" + a-caron gives 3.
C4_TonePrecedence ==
    pc \in { "tone_done", "colorized" } =>
        /\ (Len(syl) > 0 /\ isdigit(syl[Len(syl)])) => tone = << syl[Len(syl)] >>
        /\ (~(Len(syl) > 0 /\ isdigit(syl[Len(syl)])) /\ LeftmostDiacritic(syl) # 0)
              => tone = DIACRITIC_TO_TONE[syl[LeftmostDiacritic(syl)]]
        /\ (~(Len(syl) > 0 /\ isdigit(syl[Len(syl)])) /\ LeftmostDiacritic(syl) = 0)
              => tone = << 53 >>
        /\ syl = << 109, 97 >> => tone = << 53 >>
        /\ syl = << 109, 97, 51 >> => tone = << 51 >>
        /\ syl = << 109, 462 >> => tone = << 51 >>

\* A syllable with an acute a (tone 2) and a trailing 3 was classified 3.
C4_Witness ==
    pc = "tone_done" /\ syl = << 109, 225, 51 >> /\ tone = << 51 >>

---------------------------------------------------------------------------
(* Paragraph splitter.                                                     *)

\* The line boundaries of str.splitlines: \n \v \f \r FS GS RS NEL LS PS
\* (\r\n counts as one boundary).
LineBreaks == { 10, 11, 12, 13, 28, 29, 30, 133, 8232, 8233 }

\* The characters str.strip() removes (str.isspace).
Whitespace ==
    { 9, 10, 11, 12, 13, 28, 29, 30, 31, 32, 133, 160, 5760, 8239, 8287, 12288 }
    \cup 8192..8202 \cup { 8232, 8233 }

RECURSIVE splitlines_from(_, _, _)
\* The lines of s from position k on, cur being the line collected so far.
\* A boundary ends the current line; no line follows the last boundary.
splitlines_from(s, k, cur) ==
    IF k > Len(s) THEN (IF cur = << >> THEN << >> ELSE << cur >>)
    ELSE IF s[k] \in LineBreaks
         THEN LET k2 == IF s[k] = 13 /\ k < Len(s) /\ s[k + 1] = 10
                        THEN k + 2 ELSE k + 1
              IN  << cur >> \o splitlines_from(s, k2, << >>)
         ELSE splitlines_from(s, k + 1, Append(cur, s[k]))

\* text.splitlines()
splitlines(s) == splitlines_from(s, 1, << >>)

RECURSIVE lstrip(_)
lstrip(s) == IF s # << >> /\ Head(s) \in Whitespace THEN lstrip(Tail(s)) ELSE s

RECURSIVE rstrip(_)
rstrip(s) ==
    IF s # << >> /\ s[Len(s)] \in Whitespace
    THEN rstrip(SubSeq(s, 1, Len(s) - 1)) ELSE s

\* line.strip()
strip(s) == rstrip(lstrip(s))

RECURSIVE join(_, _)
\* sep.join(xs)
join(sep, xs) ==
    IF xs = << >> THEN << >>
    ELSE IF Len(xs) = 1 THEN xs[1]
    ELSE xs[1] \o sep \o join(sep, Tail(xs))

\* A variant of the loop body that closes a paragraph at every blank line,
\* also when the buffer is empty.
parse_line_unguarded(buf, paras, line) ==
    LET clean == strip(line)
    IN  IF clean # << >>
        THEN [ buffer |-> Append(buf, clean), paragraphs |-> paras ]
        ELSE [ buffer |-> << >>,
               paragraphs |-> Append(paras, join(<< 32 >>, buf)) ]

\* The body of parse_paragraphs' loop for one line.
parse_line(buf, paras, line) ==
    LET clean == strip(line)
    IN  IF clean # << >>
        THEN [ buffer |-> Append(buf, clean), paragraphs |-> paras ]
        ELSE IF buf # << >>
        THEN [ buffer |-> << >>,
               paragraphs |-> Append(paras, join(<< 32 >>, buf)) ]
        ELSE [ buffer |-> buf, paragraphs |-> paras ]

\* After the loop: if buffer: paragraphs.append(" ".join(buffer)).
parse_flush(buf, paras) ==
    IF buf # << >> THEN Append(paras, join(<< 32 >>, buf)) ELSE paras

RECURSIVE parse_lines(_, _, _)
parse_lines(lines, buf, paras) ==
    IF lines = << >> THEN parse_flush(buf, paras)
    ELSE LET r == parse_line(buf, paras, Head(lines))
         IN  parse_lines(Tail(lines), r.buffer, r.paragraphs)

\* parse_paragraphs(text) as one function (used by the renderers' drivers).
parse_paragraphs(s) == parse_lines(splitlines(s), << >>, << >>)

\* The characters texts of the splitter are drawn from: \n, space, a, b.
TextAlphabet == { 10, 32, 97, 98 }

InitPara ==
    /\ pc = "para_loop"
    /\ text \in SeqsUpTo(TextAlphabet, MaxTextLen)
    /\ lineNo = 1
    /\ buffer = << >>
    /\ paragraphs = << >>
    /\ IdleTone /\ IdleCut /\ IdleHsk /\ IdlePinyin /\ IdleOut /\ IdleDoc

\* One iteration of `for line in text.splitlines()`.
ParseLine ==
    /\ pc = "para_loop"
    /\ lineNo <= Len(splitlines(text))
    /\ LET r == parse_line(buffer, paragraphs, splitlines(text)[lineNo])
       IN  /\ buffer' = r.buffer
           /\ paragraphs' = r.paragraphs
    /\ lineNo' = lineNo + 1
    /\ UNCHANGED << pc, text, toneVars, cutVars, hskVars, pinyinVars, outVars, docVars >>

\* The loop is over: flush the buffer and return.
ParseReturn ==
    /\ pc = "para_loop"
    /\ lineNo > Len(splitlines(text))
    /\ paragraphs' = parse_flush(buffer, paragraphs)
    /\ pc' = "para_done"
    /\ UNCHANGED << text, lineNo, buffer, toneVars, cutVars, hskVars,
                    pinyinVars, outVars, docVars >>

NextPara == ParseLine \/ ParseReturn

SpecPara == InitPara /\ [][NextPara]_vars

---------------------------------------------------------------------------
(* Paragraph splitter: claims.                                             *)

\* A blank line: empty or whitespace only.
IsBlankLine(l) == \A k \in 1..Len(l) : l[k] \in Whitespace

\* The groups of a list of lines: the maximal runs of consecutive non-blank
\* lines, each given as << first, last >>.
LineGroups(lines) ==
    { g \in (1..Len(lines)) \X (1..Len(lines)) :
        /\ g[1] <= g[2]
        /\ \A k \in g[1]..g[2] : ~IsBlankLine(lines[k])
        /\ g[1] = 1 \/ IsBlankLine(lines[g[1] - 1])
        /\ g[2] = Len(lines) \/ IsBlankLine(lines[g[2] + 1]) }

\* The paragraph of a group: its stripped lines joined by one space.
GroupParagraph(lines, g) ==
    join(<< 32 >>, [ k \in 1..(g[2] - g[1] + 1) |-> strip(lines[g[1] + k - 1]) ])

\* paras is exactly the paragraphs of the groups of lines, in source order.
IsGroupParagraphs(lines, paras) ==
    /\ Len(paras) = Cardinality(LineGroups(lines))
    /\ \A g \in LineGroups(lines) :
          LET rank == Cardinality({ h \in LineGroups(lines) : h[1] <= g[1] })
          IN  paras[rank] = GroupParagraph(lines, g)
    /\ \A j \in 1..Len(paras) : paras[j] # << >>

\* C5 as stated: any text without blank lines gives exactly one paragraph,
\* and N groups separated by blank lines give the N group paragraphs in
\* order, none of them empty.
C5_Original ==
    pc = "para_done" =>
        /\ (\A k \in 1..Len(splitlines(text)) : ~IsBlankLine(splitlines(text)[k]))
              => Len(paragraphs) = 1
        /\ IsGroupParagraphs(splitlines(text), paragraphs)

\* C5 (amended): a text with at least one line and no blank line gives
\* exactly one paragraph (the empty text gives none), and N groups separated
\* by blank lines give the N group paragraphs in order, none of them empty.
C5_GroupsBecomeParagraphs ==
    pc = "para_done" =>
        /\ (/\ splitlines(text) # << >>
            /\ \A k \in 1..Len(splitlines(text)) : ~IsBlankLine(splitlines(text)[k]))
              => Len(paragraphs) = 1
        /\ IsGroupParagraphs(splitlines(text), paragraphs)

\* "a", two blank lines (one of them a space), "b": two paragraphs.
C5_Witness ==
    /\ pc = "para_done"
    /\ text = << 97, 10, 32, 10, 98 >>
    /\ paragraphs = << << 97 >>, << 98 >> >>

---------------------------------------------------------------------------
(* Tokenizer.                                                              *)

\* HANZI_RUN.match(s, p): is there a run starting at position p?
HANZI_RUN_match(s, p) == p <= Len(s) /\ s[p] \in HANZI_RUN_CLASS

\* m.end() for a match starting at p: the first position after the maximal
\* run of class characters.
HANZI_RUN_end(s, p) ==
    CHOOSE e \in (p + 1)..(Len(s) + 1) :
        /\ \A k \in p..(e - 1) : s[k] \in HANZI_RUN_CLASS
        /\ e = Len(s) + 1 \/ s[e] \notin HANZI_RUN_CLASS

\* The maximal runs of HANZI_RUN characters of s, as strings.
HanziRuns(s) ==
    { SubSeq(s, p, HANZI_RUN_end(s, p) - 1) :
        p \in { q \in 1..Len(s) :
                  /\ HANZI_RUN_match(s, q)
                  /\ q = 1 \/ ~HANZI_RUN_match(s, q - 1) } }

RECURSIVE Segmentations(_)
\* jieba.lcut(han, HMM=False) is a library call: whatever its dictionary, it
\* splits han into consecutive non-empty words.  Segmentations(han) is the
\* set of all such splits.
Segmentations(han) ==
    IF han = << >> THEN { << >> }
    ELSE UNION { { << SubSeq(han, 1, k) >> \o rest :
                     rest \in Segmentations(SubSeq(han, k + 1, Len(han))) } :
                 k \in 1..Len(han) }

\* The segmenters over a set of runs: one fixed segmentation per run (the
\* library is deterministic: the same run is always cut the same way).
Segmenters(runs) ==
    { f \in [ runs -> UNION { Segmentations(r) : r \in runs } ] :
        \A r \in runs : f[r] \in Segmentations(r) }

\* A variant of the scan that forgets the characters buffered before a
\* punctuation mark.
RECURSIVE scan_span_drop_buffer(_, _, _, _)
scan_span_drop_buffer(s, j, buf_start, toks) ==
    IF j <= Len(s) /\ ~HANZI_RUN_match(s, j)
    THEN IF PUNCT_OPEN_PATTERN(<< s[j] >>) \/ PUNCT_CLOSE_PATTERN(<< s[j] >>)
         THEN scan_span_drop_buffer(s, j + 1, j + 1, Append(toks, << s[j] >>))
         ELSE scan_span_drop_buffer(s, j + 1, buf_start, toks)
    ELSE [ tokens |-> IF j > buf_start
                      THEN Append(toks, SubSeq(s, buf_start, j - 1)) ELSE toks,
           j |-> j ]

RECURSIVE scan_span(_, _, _, _)
\* Case 2 of cut_mixed: the inner while loop from j on, then the final flush.
\* Returns the tokens appended and the position the span ends at.
scan_span(s, j, buf_start, toks) ==
    IF j <= Len(s) /\ ~HANZI_RUN_match(s, j)
    THEN IF PUNCT_OPEN_PATTERN(<< s[j] >>) \/ PUNCT_CLOSE_PATTERN(<< s[j] >>)
         THEN scan_span(s, j + 1, j + 1,
                        (IF j > buf_start
                         THEN Append(toks, SubSeq(s, buf_start, j - 1))
                         ELSE toks) \o << << s[j] >> >>)
         ELSE scan_span(s, j + 1, buf_start, toks)
    ELSE [ tokens |-> IF j > buf_start
                      THEN Append(toks, SubSeq(s, buf_start, j - 1)) ELSE toks,
           j |-> j ]

RECURSIVE cut_from(_, _, _)
\* The outer loop of cut_mixed from position p on, with segmenter seg.
cut_from(s, p, seg) ==
    IF p > Len(s) THEN << >>
    ELSE IF HANZI_RUN_match(s, p)
         THEN LET e == HANZI_RUN_end(s, p)
              IN  seg[SubSeq(s, p, e - 1)] \o cut_from(s, e, seg)
         ELSE LET r == scan_span(s, p, p, << >>)
              IN  r.tokens \o cut_from(s, r.j, seg)

\* cut_mixed(s), with jieba.lcut given as seg.
cut_mixed(s, seg) == cut_from(s, 1, seg)

\* The characters paragraphs are drawn from: two Hanzi (U+4F60, U+597D), an
\* Extension A ideograph (U+3400), a, fullwidth ( and fullwidth comma.
CutAlphabet == { 20320, 22909, 13312, 97, 65288, 65292 }

InitCut ==
    /\ pc = "cut_loop"
    /\ para \in SeqsUpTo(CutAlphabet, MaxParaLen)
    /\ lcut \in Segmenters(HanziRuns(para))
    /\ pos = 1
    /\ tokens = << >>
    /\ origin = << >>
    /\ IdleTone /\ IdlePara /\ IdleHsk /\ IdlePinyin /\ IdleOut /\ IdleDoc

\* Case 1: a Hanzi run starts at i; its words are appended.
CutHanziRun ==
    /\ pc = "cut_loop"
    /\ pos <= Len(para)
    /\ HANZI_RUN_match(para, pos)
    /\ LET e    == HANZI_RUN_end(para, pos)
           han  == SubSeq(para, pos, e - 1)
       IN  /\ tokens' = tokens \o lcut[han]
           /\ origin' = origin \o [ k \in 1..Len(lcut[han]) |-> "run" ]
           /\ pos' = e
    /\ UNCHANGED << pc, para, lcut, toneVars, paraVars, hskVars, pinyinVars,
                    outVars, docVars >>

\* Case 2: a non-Hanzi span starts at i; punctuation marks are split out.
CutNonHanziSpan ==
    /\ pc = "cut_loop"
    /\ pos <= Len(para)
    /\ ~HANZI_RUN_match(para, pos)
    /\ LET r == scan_span(para, pos, pos, << >>)
       IN  /\ tokens' = tokens \o r.tokens
           /\ origin' = origin \o [ k \in 1..Len(r.tokens) |-> "span" ]
           /\ pos' = r.j
    /\ UNCHANGED << pc, para, lcut, toneVars, paraVars, hskVars, pinyinVars,
                    outVars, docVars >>

\* i = n: return tokens.
CutReturn ==
    /\ pc = "cut_loop"
    /\ pos > Len(para)
    /\ pc' = "cut_done"
    /\ UNCHANGED << cutVars, toneVars, paraVars, hskVars, pinyinVars, outVars, docVars >>

NextCut == CutHanziRun \/ CutNonHanziSpan \/ CutReturn

SpecCut == InitCut /\ [][NextCut]_vars

---------------------------------------------------------------------------
(* Tokenizer: claims.                                                      *)

\* C1: the tokens of cut_mixed(P), concatenated in order, are exactly P, and
\* no token is empty (so the empty paragraph has no token).
C1_TokensReconstructParagraph ==
    /\ \A k \in 1..Len(tokens) : tokens[k] # << >>
    /\ pc = "cut_loop" => Flatten(tokens) = SubSeq(para, 1, pos - 1)
    /\ pc = "cut_done" => Flatten(tokens) = para

\* A paragraph mixing Latin, punctuation and Hanzi was cut into four tokens.
C1_Witness ==
    /\ pc = "cut_done"
    /\ para = << 97, 65288, 20320, 65292 >>
    /\ tokens = << << 97 >>, << 65288 >>, << 20320 >>, << 65292 >> >>

\* What the renderers treat as punctuation: a token that fails is_hanzi_word
\* and matches the open or the close pattern.
TreatedAsPunctuation(token) ==
    /\ ~is_hanzi_word(token)
    /\ PUNCT_OPEN_PATTERN(token) \/ PUNCT_CLOSE_PATTERN(token)

\* C2: every token emitted from a Hanzi run has all its characters in
\* U+4E00..U+9FFF (is_hanzi_word holds of it), and every token treated as
\* punctuation is one character of the open or the close class.
C2_RunTokensAreHanziWords ==
    pc = "cut_done" =>
        \A k \in 1..Len(tokens) :
            /\ origin[k] = "run" =>
                  /\ tokens[k] # << >>
                  /\ \A c \in 1..Len(tokens[k]) :
                        19968 <= tokens[k][c] /\ tokens[k][c] <= 40959
                  /\ is_hanzi_word(tokens[k])
            /\ TreatedAsPunctuation(tokens[k]) =>
                  /\ Len(tokens[k]) = 1
                  /\ tokens[k][1] \in PUNCT_OPEN_CLASS \cup PUNCT_CLOSE_CLASS

---------------------------------------------------------------------------
(* Vocabulary index.                                                       *)

\* A table row is a record of the columns hanzi, pinyin_tone, english, pos,
\* level and tts_url.  A str cell is a string; a missing cell (NaN in the
\* DataFrame) is the value NaN, which is no string.  level is an integer, and
\* a missing level is any negative number.
NaN == << -1 >>

IsNaN(x) == x = NaN

IsNaNLevel(l) == l < 0

\* str(n) for an integer level below 100.
str_int(n) ==
    IF n < 10 THEN << 48 + n >> ELSE << 48 + (n \div 10), 48 + (n % 10) >>

\* str(x) for a cell: the cell itself, "nan" for a missing one.
str_cell(x) == IF IsNaN(x) THEN << 110, 97, 110 >> ELSE x

RECURSIVE split_from(_, _, _)
\* str.split(): the maximal runs of non-whitespace characters.
split_from(s, k, cur) ==
    IF k > Len(s) THEN (IF cur = << >> THEN << >> ELSE << cur >>)
    ELSE IF s[k] \in Whitespace
         THEN (IF cur = << >> THEN << >> ELSE << cur >>)
              \o split_from(s, k + 1, << >>)
         ELSE split_from(s, k + 1, Append(cur, s[k]))

split(s) == split_from(s, 1, << >>)

\* str.capitalize() on ASCII letters: first character upper, the rest lower.
capitalize(s) ==
    [ k \in 1..Len(s) |->
        IF k = 1 THEN (IF s[k] \in 97..122 THEN s[k] - 32 ELSE s[k])
        ELSE (IF s[k] \in 65..90 THEN s[k] + 32 ELSE s[k]) ]

\* Python truthiness of a cell: NaN is truthy, the empty string is not.
truthy(x) == x # << >>

\* Does the loop body raise on this row?  .split() and .capitalize() are
\* called on the cell whatever it is, and a NaN (a float) has neither.
row_raises(row) == IsNaN(row.pinyin_tone) \/ IsNaN(row.english)

\* The entry stored for a row on which the body does not raise.
hsk_entry(row) ==
    LET syllables        == split(row.pinyin_tone)
        pinyin_display   == Flatten(syllables)
        english_display  == capitalize(row.english)
        level_display    == IF IsNaNLevel(row.level) THEN << 72, 83, 75, 32, 110, 97, 110 >>
                            ELSE IF row.level # 0
                            THEN << 72, 83, 75, 32 >> \o str_int(row.level)
                            ELSE << >>
        shown            == SelectSeq(<< level_display, pinyin_display,
                                         str_cell(row.pos), english_display >>,
                                      truthy)
    IN  [ level         |-> row.level,
          level_display |-> level_display,
          pinyin        |-> [ k \in 1..Len(syllables) |-> colorize_pinyin(syllables[k]) ],
          pos           |-> row.pos,
          english       |-> english_display,
          audio         |-> IF truthy(row.tts_url) THEN str_cell(row.tts_url) ELSE << >>,
          tip           |-> join(<< 44, 9, 32 >>, shown) ]

\* hsk_map[key] = entry
map_put(m, key, entry) ==
    [ k \in (DOMAIN m) \cup { key } |-> IF k = key THEN entry ELSE m[k] ]

\* df = hsk_df.dropna(subset=["hanzi"]): the rows whose hanzi is not NaN.
dropna_hanzi(df) == SelectSeq(df, LAMBDA row : ~IsNaN(row.hanzi))

\* One iteration of `for _, row in df.iterrows()`: the map and the exception
\* it ends with ("" for none).
build_row(m, row) ==
    IF ~truthy(row.hanzi) THEN [ hsk_map |-> m, raised |-> "" ]
    ELSE IF row_raises(row) THEN [ hsk_map |-> m, raised |-> "AttributeError" ]
    ELSE [ hsk_map |-> map_put(m, row.hanzi, hsk_entry(row)), raised |-> "" ]

RECURSIVE build_rows(_, _)
build_rows(m, rows) ==
    IF rows = << >> THEN [ hsk_map |-> m, raised |-> "" ]
    ELSE LET r == build_row(m, Head(rows))
         IN  IF r.raised # "" THEN r ELSE build_rows(r.hsk_map, Tail(rows))

\* build_hsk_map(hsk_df) as one function: the map, and the exception raised.
\* An empty table gives the empty map.
build_hsk_map(df) ==
    IF df = << >> THEN [ hsk_map |-> << >>, raised |-> "" ]
    ELSE build_rows(<< >>, dropna_hanzi(df))

\* Two well-formed rows: U+4F60 "ni3" you (level 1), U+597D "ha3o" good
\* (level 2), with the diacritic forms of the pinyin.
WellFormedRows ==
    { [ hanzi |-> << 20320 >>, pinyin_tone |-> << 110, 464 >>,
        english |-> << 121, 111, 117 >>, pos |-> << 114 >>, level |-> 1,
        tts_url |-> << 117 >> ],
      [ hanzi |-> << 22909 >>, pinyin_tone |-> << 104, 462, 111 >>,
        english |-> << 103, 111, 111, 100 >>, pos |-> << 97 >>, level |-> 2,
        tts_url |-> << >> ] }

\* The rows of the tables built: a well-formed row, or one with one cell
\* missing (or the hanzi empty).
SampleRows ==
    WellFormedRows
    \cup { [ r EXCEPT !.hanzi = NaN ] : r \in WellFormedRows }
    \cup { [ r EXCEPT !.hanzi = << >> ] : r \in WellFormedRows }
    \cup { [ r EXCEPT !.pinyin_tone = NaN ] : r \in WellFormedRows }
    \cup { [ r EXCEPT !.english = NaN ] : r \in WellFormedRows }
    \cup { [ r EXCEPT !.pos = NaN ] : r \in WellFormedRows }
    \cup { [ r EXCEPT !.level = -1 ] : r \in WellFormedRows }

InitHsk ==
    /\ pc = "hsk_call"
    /\ hsk_df \in SeqsUpTo(SampleRows, MaxRows)
    /\ rowNo = 0
    /\ hsk_map = << >>
    /\ raised = ""
    /\ IdleTone /\ IdlePara /\ IdleCut /\ IdlePinyin /\ IdleOut /\ IdleDoc

\* An empty table: return {}.
BuildEmpty ==
    /\ pc = "hsk_call"
    /\ hsk_df = << >>
    /\ pc' = "hsk_done"
    /\ UNCHANGED << hskVars, toneVars, paraVars, cutVars, pinyinVars, outVars, docVars >>

\* A non-empty table: drop the rows without hanzi and enter the loop.
BuildStart ==
    /\ pc = "hsk_call"
    /\ hsk_df # << >>
    /\ rowNo' = 1
    /\ pc' = "hsk_loop"
    /\ UNCHANGED << hsk_df, hsk_map, raised, toneVars, paraVars, cutVars,
                    pinyinVars, outVars, docVars >>

\* One row of df.iterrows(); an exception ends the call.
BuildRow ==
    /\ pc = "hsk_loop"
    /\ rowNo <= Len(dropna_hanzi(hsk_df))
    /\ LET r == build_row(hsk_map, dropna_hanzi(hsk_df)[rowNo])
       IN  /\ hsk_map' = r.hsk_map
           /\ raised' = r.raised
           /\ pc' = IF r.raised # "" THEN "hsk_raised" ELSE "hsk_loop"
    /\ rowNo' = rowNo + 1
    /\ UNCHANGED << hsk_df, toneVars, paraVars, cutVars, pinyinVars, outVars, docVars >>

\* The loop is over: return hsk_map.
BuildReturn ==
    /\ pc = "hsk_loop"
    /\ rowNo > Len(dropna_hanzi(hsk_df))
    /\ pc' = "hsk_done"
    /\ UNCHANGED << hskVars, toneVars, paraVars, cutVars, pinyinVars, outVars, docVars >>

NextHsk == BuildEmpty \/ BuildStart \/ BuildRow \/ BuildReturn

SpecHsk == InitHsk /\ [][NextHsk]_vars

---------------------------------------------------------------------------
(* Vocabulary index: claims.                                               *)

\* A malformed row: the hanzi is missing or empty, or the romanization, the
\* translation, the part of speech or the level is missing.
IsMalformedRow(row) ==
    \/ IsNaN(row.hanzi) \/ row.hanzi = << >>
    \/ IsNaN(row.pinyin_tone) \/ IsNaN(row.english) \/ IsNaN(row.pos)
    \/ IsNaNLevel(row.level)

\* C10: build_hsk_map never fails on a malformed row: such a row is skipped
\* and contributes no key, and every well-formed row of the table yields its
\* entry.
C10_MalformedRowsSkipped ==
    /\ raised = ""
    /\ pc # "hsk_raised"
    /\ pc = "hsk_done" =>
          /\ DOMAIN hsk_map =
                { hsk_df[k].hanzi :
                    k \in { j \in 1..Len(hsk_df) : ~IsMalformedRow(hsk_df[j]) } }
          /\ \A k \in 1..Len(hsk_df) :
                (/\ ~IsMalformedRow(hsk_df[k])
                 /\ \A j \in (k + 1)..Len(hsk_df) :
                       IsMalformedRow(hsk_df[j]) \/ hsk_df[j].hanzi # hsk_df[k].hanzi)
                   => hsk_map[hsk_df[k].hanzi] = hsk_entry(hsk_df[k])

---------------------------------------------------------------------------
(* Markup.  A markup string is a sequence of items: a character of text or *)
(* one macro call.                                                         *)

\* One character of text.
Ch(c) == [ k |-> "ch", s |-> << c >>, color |-> "" ]

\* The text of a string, character by character.
Text(str) == [ n \in 1..Len(str) |-> Ch(str[n]) ]

\* The word separator "\\pywordsep{}".
PYWORDSEP == [ k |-> "pywordsep", s |-> << >>, color |-> "" ]

\* pypinyin's reading of one character in Style.TONE (a library table): the
\* readings of U+4F60 and U+597D; a character without a reading has none.
PinyinReading ==
    [ c \in { 20320, 22909 } |->
        IF c = 20320 THEN << 110, 464 >> ELSE << 104, 462, 111 >> ]

RECURSIVE pinyin(_)
\* pinyin(token, style=TONE_STYLE, strict=False, errors="ignore"): one
\* syllable per character; characters without a reading are left out.
pinyin(token) ==
    IF token = << >> THEN << >>
    ELSE (IF Head(token) \in DOMAIN PinyinReading
          THEN << PinyinReading[Head(token)] >> ELSE << >>)
         \o pinyin(Tail(token))

\* "".join(colorize_pinyin(s[0]) for s in pys)
romanize(token) ==
    [ n \in 1..Len(pinyin(token)) |-> colorize_pinyin(pinyin(token)[n]) ]

---------------------------------------------------------------------------
(* Romanization-only renderer.                                             *)

\* next_is_punct(i, tokens, n_tokens), with i a 1-based index.
next_is_punct(n, toks) ==
    /\ n < Len(toks)
    /\ PUNCT_CLOSE_PATTERN(toks[n + 1]) \/ PUNCT_OPEN_PATTERN(toks[n + 1])

\* The branch of pinyin_only's if/elif chain a token takes.
branch_of(token) ==
    IF is_hanzi_word(token) THEN "hanzi"
    ELSE IF PUNCT_OPEN_PATTERN(token) THEN "open"
    ELSE IF PUNCT_CLOSE_PATTERN(token) THEN "close"
    ELSE "latin"

\* The condition under which the Hanzi and Latin branches append a separator.
sep_after_word(n, toks) == ~(next_is_punct(n, toks) \/ n = Len(toks))

\* The condition under which the close branch appends a separator.
sep_after_close(n, toks) == n # Len(toks) /\ ~next_is_punct(n, toks)

\* The characters texts of the renderer are drawn from: \n, U+4F60, a,
\* fullwidth ( and fullwidth comma.
DocAlphabet == { 10, 20320, 97, 65288, 65292 }

InitPinyin ==
    /\ pc = "py_para"
    /\ text \in SeqsUpTo(DocAlphabet, MaxDocLen)
    /\ paragraphs = parse_paragraphs(text)
    /\ lcut \in Segmenters(UNION { HanziRuns(paragraphs[n]) : n \in 1..Len(paragraphs) })
    /\ lineNo = 0 /\ buffer = << >>
    /\ para = << >> /\ pos = 0 /\ tokens = << >> /\ origin = << >>
    /\ pIdx = 1 /\ i = 0 /\ pieces = << >> /\ pending_open = << >>
    /\ unitLog = << >>
    /\ IdleTone /\ IdleHsk /\ IdleOut /\ IdleDoc

\* A variant of the paragraph start that keeps pending_open.
PinyinStartPara_keep_pending ==
    /\ pc = "py_para"
    /\ pIdx <= Len(paragraphs)
    /\ tokens' = cut_mixed(paragraphs[pIdx], lcut)
    /\ i' = 1
    /\ pieces' = << >>
    /\ unitLog' = << >>
    /\ pc' = "py_tok"
    /\ UNCHANGED << pending_open, pIdx, para, lcut, pos, origin, toneVars, paraVars,
                    hskVars, outVars, docVars >>

\* for para in paragraphs: tokens = cut_mixed(para); pieces = []; pending_open = "".
PinyinStartPara ==
    /\ pc = "py_para"
    /\ pIdx <= Len(paragraphs)
    /\ tokens' = cut_mixed(paragraphs[pIdx], lcut)
    /\ i' = 1
    /\ pieces' = << >>
    /\ pending_open' = << >>
    /\ unitLog' = << >>
    /\ pc' = "py_tok"
    /\ UNCHANGED << pIdx, para, lcut, pos, origin, toneVars, paraVars,
                    hskVars, outVars, docVars >>

\* A Hanzi word: its coloured syllables, prefixed by the pending open
\* punctuation, then a separator unless punctuation or the end follows.
PinyinHanzi ==
    /\ pc = "py_tok"
    /\ i <= Len(tokens)
    /\ branch_of(tokens[i]) = "hanzi"
    /\ LET word == Text(pending_open) \o romanize(tokens[i])
           sep  == sep_after_word(i, tokens)
       IN  /\ pieces' = Append(pieces, word)
                        \o (IF sep THEN << << PYWORDSEP >> >> ELSE << >>)
           /\ unitLog' = Append(unitLog,
                 [ tok |-> i, branch |-> "hanzi", sep |-> sep,
                   piece |-> Len(pieces) + 1, prefix |-> pending_open ])
    /\ pending_open' = << >>
    /\ i' = i + 1
    /\ UNCHANGED << pc, pIdx, tokens, para, lcut, pos, origin, toneVars,
                    paraVars, hskVars, outVars, docVars >>

\* Opening punctuation: kept for the next token.
PinyinOpen ==
    /\ pc = "py_tok"
    /\ i <= Len(tokens)
    /\ branch_of(tokens[i]) = "open"
    /\ pending_open' = pending_open \o tokens[i]
    /\ unitLog' = Append(unitLog,
          [ tok |-> i, branch |-> "open", sep |-> FALSE, piece |-> 0,
            prefix |-> << >> ])
    /\ i' = i + 1
    /\ UNCHANGED << pc, pIdx, pieces, tokens, para, lcut, pos, origin,
                    toneVars, paraVars, hskVars, outVars, docVars >>

\* Closing punctuation: appended to the last piece (or a piece of its own
\* when there is none), then a separator unless punctuation or the end
\* follows.
PinyinClose ==
    /\ pc = "py_tok"
    /\ i <= Len(tokens)
    /\ branch_of(tokens[i]) = "close"
    /\ LET attached == IF pieces # << >>
                       THEN [ pieces EXCEPT ![Len(pieces)] = @ \o Text(tokens[i]) ]
                       ELSE << Text(tokens[i]) >>
           sep      == sep_after_close(i, tokens)
       IN  /\ pieces' = attached \o (IF sep THEN << << PYWORDSEP >> >> ELSE << >>)
           /\ unitLog' = Append(unitLog,
                 [ tok |-> i, branch |-> "close", sep |-> sep,
                   piece |-> Len(attached), prefix |-> << >> ])
    /\ i' = i + 1
    /\ UNCHANGED << pc, pIdx, pending_open, tokens, para, lcut, pos, origin,
                    toneVars, paraVars, hskVars, outVars, docVars >>

\* Latin, numbers, etc.: the token itself, prefixed by the pending open
\* punctuation, then a separator unless punctuation or the end follows.
PinyinLatin ==
    /\ pc = "py_tok"
    /\ i <= Len(tokens)
    /\ branch_of(tokens[i]) = "latin"
    /\ LET word == Text(pending_open \o tokens[i])
           sep  == sep_after_word(i, tokens)
       IN  /\ pieces' = Append(pieces, word)
                        \o (IF sep THEN << << PYWORDSEP >> >> ELSE << >>)
           /\ unitLog' = Append(unitLog,
                 [ tok |-> i, branch |-> "latin", sep |-> sep,
                   piece |-> Len(pieces) + 1, prefix |-> pending_open ])
    /\ pending_open' = << >>
    /\ i' = i + 1
    /\ UNCHANGED << pc, pIdx, tokens, para, lcut, pos, origin, toneVars,
                    paraVars, hskVars, outVars, docVars >>

\* The tokens are done: append what is still pending and close the paragraph.
PinyinEndPara ==
    /\ pc = "py_tok"
    /\ i > Len(tokens)
    /\ pieces' = IF pending_open # << >>
                 THEN Append(pieces, Text(pending_open)) ELSE pieces
    /\ out' = Append(out, Flatten(pieces'))
    /\ pIdx' = pIdx + 1
    /\ pc' = "py_para"
    /\ UNCHANGED << i, pending_open, unitLog, tokens, para, lcut, pos, origin,
                    result, with_ruby, vocab, toneVars, paraVars, hskVars, docVars >>

\* return "\n\n".join(out)
PinyinReturn ==
    /\ pc = "py_para"
    /\ pIdx > Len(paragraphs)
    /\ result' = join(Text(<< 10, 10 >>), out)
    /\ pc' = "py_done"
    /\ UNCHANGED << out, with_ruby, vocab, pinyinVars, cutVars, toneVars, paraVars,
                    hskVars, docVars >>

NextPinyin ==
    \/ PinyinStartPara \/ PinyinHanzi \/ PinyinOpen \/ PinyinClose
    \/ PinyinLatin \/ PinyinEndPara \/ PinyinReturn

SpecPinyin == InitPinyin /\ [][NextPinyin]_vars

---------------------------------------------------------------------------
(* Romanization-only renderer: claims.                                     *)

\* A punctuation token: it matches the open or the close pattern.
IsPunctToken(token) == PUNCT_OPEN_PATTERN(token) \/ PUNCT_CLOSE_PATTERN(token)

\* An item that is a punctuation character.
IsPunctItem(it) ==
    it.k = "ch" /\ it.s[1] \in PUNCT_OPEN_CLASS \cup PUNCT_CLOSE_CLASS

\* The rule of the separator: after the unit of token n exactly when n is not
\* the last token and the next token is not punctuation.
SeparatorRule ==
    \A e \in Range(unitLog) :
        e.branch # "open" =>
            (e.sep <=> (e.tok # Len(tokens) /\ ~IsPunctToken(tokens[e.tok + 1])))

\* The output o of a paragraph neither starts nor ends with a separator, has
\* no two adjacent separators and no separator directly before punctuation.
SeparatorsWellPlaced(o) ==
    /\ o # << >> => (o[1] # PYWORDSEP /\ o[Len(o)] # PYWORDSEP)
    /\ \A n \in 1..(Len(o) - 1) :
          o[n] = PYWORDSEP => (o[n + 1] # PYWORDSEP /\ ~IsPunctItem(o[n + 1]))

\* C6: a separator follows a unit exactly when its token is not the last one
\* and the next token is not punctuation; so the output of a paragraph never
\* starts or ends with a separator, never has two adjacent separators and
\* never has a separator directly before a punctuation character.
C6_SeparatorPlacement ==
    /\ pc = "py_tok" => SeparatorRule
    /\ \A n \in 1..Len(out) : SeparatorsWellPlaced(out[n])

\* The last Hanzi or Latin token before token n (0 when there is none).
LastWordBefore(toks, n) ==
    LET W == { j \in 1..(n - 1) : branch_of(toks[j]) \in { "hanzi", "latin" } }
    IN  IF W = { } THEN 0 ELSE CHOOSE j \in W : \A h \in W : h <= j

\* The open punctuation tokens strictly between tokens a and b, concatenated.
OpensBetween(toks, a, b) ==
    Flatten(SelectSeq(Slice(toks, a + 1, b - 1),
                      LAMBDA t : branch_of(t) = "open"))

\* The open punctuation waiting for token n: that met since the last Hanzi
\* or Latin token.
PendingFor(toks, n) == OpensBetween(toks, LastWordBefore(toks, n), n)

\* The unit of a Hanzi or Latin token, without any prefix.
UnitOf(token) ==
    IF branch_of(token) = "hanzi" THEN romanize(token) ELSE Text(token)

\* C7: open punctuation is never a unit of its own while a Hanzi or Latin
\* token follows: all of it is the prefix, with nothing in between, of the
\* next Hanzi or Latin unit, after which nothing is pending; what is still
\* pending at the end of the paragraph is one trailing unit; and nothing is
\* pending when a paragraph starts.
C7_OpenPunctuationPrefixesNextUnit ==
    /\ pc = "py_tok" =>
          /\ pending_open = PendingFor(tokens, i)
          /\ i = 1 => pending_open = << >>
          /\ \A n \in 1..Len(pieces) :
                pieces[n] = << PYWORDSEP >>
                \/ \E e \in Range(unitLog) : e.branch # "open" /\ e.piece = n
    /\ pc \in { "py_tok", "py_para", "py_done" } =>
          \A e \in Range(unitLog) :
             e.branch \in { "hanzi", "latin" } =>
                LET pre == PendingFor(tokens, e.tok)
                IN  /\ e.prefix = pre
                    /\ Len(pieces[e.piece]) >= Len(pre) + Len(UnitOf(tokens[e.tok]))
                    /\ SubSeq(pieces[e.piece], 1,
                              Len(pre) + Len(UnitOf(tokens[e.tok])))
                          = Text(pre) \o UnitOf(tokens[e.tok])
    /\ (pc \in { "py_para", "py_done" } /\ pIdx > 1) =>
          /\ pending_open = PendingFor(tokens, Len(tokens) + 1)
          /\ pending_open # << >> =>
                /\ pieces[Len(pieces)] = Text(pending_open)
                /\ \A n \in 1..(Len(pieces) - 1) :
                      pieces[n] = << PYWORDSEP >>
                      \/ \E e \in Range(unitLog) : e.branch # "open" /\ e.piece = n
          /\ out[Len(out)] = Flatten(pieces)

\* Second paragraph "(a" after a first paragraph that ended with "(" still
\* pending: the unit of "a" is "(a", with one "(" only.
C7_Witness ==
    /\ pc = "py_tok"
    /\ text = << 65288, 10, 10, 65288, 97 >>
    /\ pIdx = 2
    /\ i = 3
    /\ pieces = << Text(<< 65288, 97 >>) >>
    /\ out = << Text(<< 65288 >>) >>

---------------------------------------------------------------------------
(* Plain and ruby renderer.                                                *)

\* HSK_LEVEL_COLORS: levels 1-6.
HSK_LEVEL_COLORS ==
    [ l \in 1..6 |->
        CASE l = 1 -> "green!20" [] l = 2 -> "cyan!20" [] l = 3 -> "blue!20"
          [] l = 4 -> "orange!20" [] l = 5 -> "red!20" [] l = 6 -> "purple!20" ]

\* highlight(word, color): \colorbox{color}{word} in a group without padding.
highlight(word, color) == [ k |-> "colorbox", s |-> word, color |-> color ]

\* tooltip(visible, tip): \pdftooltip{visible}{tip}.
tooltip(visible, tip) == [ k |-> "pdftooltip", visible |-> visible, tip |-> tip ]

\* \ruby{word}{syls}
ruby(word, syls) == [ k |-> "ruby", body |-> word, syls |-> syls ]

\* The highlighted, tooltipped form of an index key.
annotate_key(key, m) ==
    tooltip(highlight(key, HSK_LEVEL_COLORS[m[key].level]), m[key].tip)

\* Does annotate_token raise KeyError?  HSK_LEVEL_COLORS[level] is looked up
\* for the token if it is a key, else for each of its characters that is.
annotate_raises(token, m) ==
    IF token \in DOMAIN m THEN m[token].level \notin DOMAIN HSK_LEVEL_COLORS
    ELSE \E n \in 1..Len(token) :
            /\ << token[n] >> \in DOMAIN m
            /\ m[<< token[n] >>].level \notin DOMAIN HSK_LEVEL_COLORS

\* A variant that annotates character by character even when the whole
\* token is a key.
annotate_token_chars_only(token, m) ==
    [ n \in 1..Len(token) |->
        IF << token[n] >> \in DOMAIN m
        THEN annotate_key(<< token[n] >>, m) ELSE Ch(token[n]) ]

\* render_hanzi.annotate_token: the whole word if known, else character by
\* character.
annotate_token(token, m) ==
    IF token \in DOMAIN m THEN << annotate_key(token, m) >>
    ELSE [ n \in 1..Len(token) |->
             IF << token[n] >> \in DOMAIN m
             THEN annotate_key(<< token[n] >>, m) ELSE Ch(token[n]) ]

\* The piece render_hanzi appends for one token.
render_token(token, m, rubyOn) ==
    IF is_hanzi_word(token)
    THEN << ruby(annotate_token(token, m),
                 IF rubyOn THEN romanize(token) ELSE << >>) >>
    ELSE IF PUNCT_OPEN_PATTERN(token) \/ PUNCT_CLOSE_PATTERN(token)
    THEN Text(token)
    ELSE << ruby(Text(token), << >>) >>

---------------------------------------------------------------------------
(* Vocabulary section.                                                     *)

RECURSIVE lex_less(_, _)
\* a < b for Python strings: code point by code point, a prefix first.
lex_less(a, b) ==
    IF b = << >> THEN FALSE
    ELSE IF a = << >> THEN TRUE
    ELSE IF Head(a) # Head(b) THEN Head(a) < Head(b)
    ELSE lex_less(Tail(a), Tail(b))

RECURSIVE sorted(_)
\* sorted(S) for a set of strings.
sorted(S) ==
    IF S = { } THEN << >>
    ELSE LET least == CHOOSE x \in S : \A y \in S \ { x } : lex_less(x, y)
         IN  << least >> \o sorted(S \ { least })

\* str(hsk_map[key]["level"])
str_level(l) == IF IsNaNLevel(l) THEN << 110, 97, 110 >> ELSE str_int(l)

\* A variant that never looks the whole token up.
token_keys_chars_only(token, m) ==
    IF ~is_hanzi_word(token) THEN { }
    ELSE { << token[n] >> : n \in { j \in 1..Len(token) : << token[j] >> \in DOMAIN m } }

\* The index keys one token contributes: the token if it is a key, else its
\* characters that are.
token_keys(token, m) ==
    IF ~is_hanzi_word(token) THEN { }
    ELSE IF token \in DOMAIN m THEN { token }
    ELSE { << token[n] >> : n \in { j \in 1..Len(token) : << token[j] >> \in DOMAIN m } }

\* vocabulary_hanzi: str(level) -> the set of keys met in the text.
vocabulary_hanzi(toks, m) ==
    LET met == UNION { token_keys(toks[n], m) : n \in 1..Len(toks) }
    IN  [ lv \in { str_level(m[h].level) : h \in met } |->
            { h \in met : str_level(m[h].level) = lv } ]

\* One table of the section: its title and its rows, sorted.
vocabulary_group(level, keys, m) ==
    LET sample == CHOOSE h \in keys : TRUE
        title  == IF m[sample].level_display # << >> THEN m[sample].level_display
                  ELSE << 72, 83, 75, 32 >> \o level
    IN  [ level |-> level,
          title |-> title,
          rows  |-> [ n \in 1..Len(sorted(keys)) |->
                        LET h == sorted(keys)[n]
                        IN  [ hanzi |-> h, pinyin |-> m[h].pinyin, pos |-> m[h].pos,
                              audio |-> m[h].audio, english |-> m[h].english ] ] ]

\* vocabulary(text, hsk_df): the tables in the order emitted; << >> stands
\* for the empty string.  The whole text is tokenized, not its paragraphs.
vocabulary(txt, df, seg) ==
    IF df = << >> THEN << >>
    ELSE LET m  == build_hsk_map(df).hsk_map
             vh == vocabulary_hanzi(cut_mixed(txt, seg), m)
         IN  [ n \in 1..Len(sorted(DOMAIN vh)) |->
                 vocabulary_group(sorted(DOMAIN vh)[n], vh[sorted(DOMAIN vh)[n]], m) ]

---------------------------------------------------------------------------
(* The renderer and the vocabulary section on one text, as generate_pdf    *)
(* calls them.                                                             *)

\* The rows of the renderer's tables: U+4F60 (level 1), U+597D (level 2),
\* the word U+4F60 U+597D (level 1), and a second row for U+597D (level 6).
RenderRows ==
    WellFormedRows
    \cup { [ hanzi |-> << 20320, 22909 >>, pinyin_tone |-> << 110, 464, 32, 104, 462, 111 >>,
             english |-> << 104, 105 >>, pos |-> << 105 >>, level |-> 1,
             tts_url |-> << >> ],
           [ hanzi |-> << 22909 >>, pinyin_tone |-> << 104, 224, 111 >>,
             english |-> << 108, 105, 107, 101 >>, pos |-> << 118 >>, level |-> 6,
             tts_url |-> << >> ] }

\* The characters texts of the renderer are drawn from: \n, U+4F60, U+597D, a.
RenderAlphabet == { 10, 20320, 22909, 97 }

InitRender ==
    /\ pc = "rh_call"
    /\ text \in SeqsUpTo(RenderAlphabet, MaxRenderLen)
    /\ paragraphs = << >>
    /\ lcut \in Segmenters(HanziRuns(text)
                           \cup UNION { HanziRuns(parse_paragraphs(text)[n]) :
                                          n \in 1..Len(parse_paragraphs(text)) })
    /\ hsk_df \in SeqsUpTo(RenderRows, MaxRows)
    /\ lineNo = 0 /\ buffer = << >>
    /\ para = << >> /\ pos = 0 /\ tokens = << >> /\ origin = << >>
    /\ rowNo = 0 /\ hsk_map = << >> /\ raised = ""
    /\ IdleTone /\ IdlePinyin /\ IdleOut /\ IdleDoc

\* render_hanzi(parse_paragraphs(text), hsk_df, with_ruby): build the index.
RenderStart ==
    /\ pc = "rh_call"
    /\ \E b \in BOOLEAN : with_ruby' = b
    /\ paragraphs' = parse_paragraphs(text)
    /\ hsk_map' = build_hsk_map(hsk_df).hsk_map
    /\ raised' = build_hsk_map(hsk_df).raised
    /\ pIdx' = 1
    /\ pc' = IF raised' # "" THEN "rh_raised" ELSE "rh_para"
    /\ UNCHANGED << text, lineNo, buffer, hsk_df, rowNo, out, result, vocab,
                    i, pieces, pending_open, unitLog, cutVars, toneVars, docVars >>

\* One paragraph: a piece per token, joined and appended to out.
RenderPara ==
    /\ pc = "rh_para"
    /\ pIdx <= Len(paragraphs)
    /\ LET toks == cut_mixed(paragraphs[pIdx], lcut)
       IN  /\ tokens' = toks
           /\ IF \E n \in 1..Len(toks) :
                    is_hanzi_word(toks[n]) /\ annotate_raises(toks[n], hsk_map)
              THEN /\ raised' = "KeyError"
                   /\ pc' = "rh_raised"
                   /\ UNCHANGED << pieces, out, pIdx >>
              ELSE /\ pieces' = [ n \in 1..Len(toks) |->
                                    render_token(toks[n], hsk_map, with_ruby) ]
                   /\ out' = Append(out, Flatten(pieces'))
                   /\ pIdx' = pIdx + 1
                   /\ UNCHANGED << pc, raised >>
    /\ UNCHANGED << paraVars, para, lcut, pos, origin, hsk_df, rowNo, hsk_map,
                    result, with_ruby, vocab, i, pending_open, unitLog, toneVars, docVars >>

\* return "\n\n".join(out)
RenderReturn ==
    /\ pc = "rh_para"
    /\ pIdx > Len(paragraphs)
    /\ result' = join(Text(<< 10, 10 >>), out)
    /\ pc' = "voc_call"
    /\ UNCHANGED << out, with_ruby, vocab, pinyinVars, cutVars, toneVars,
                    paraVars, hskVars, docVars >>

\* vocabulary_section = vocabulary(text, hsk_df); building the index may
\* raise as it does in build_hsk_map.
Vocabulary ==
    /\ pc = "voc_call"
    /\ IF hsk_df # << >> /\ build_hsk_map(hsk_df).raised # ""
       THEN /\ raised' = build_hsk_map(hsk_df).raised
            /\ pc' = "voc_raised"
            /\ UNCHANGED vocab
       ELSE /\ vocab' = vocabulary(text, hsk_df, lcut)
            /\ pc' = "voc_done"
            /\ UNCHANGED raised
    /\ UNCHANGED << out, result, with_ruby, pinyinVars, cutVars, toneVars,
                    paraVars, hsk_df, rowNo, hsk_map, docVars >>

NextRender == RenderStart \/ RenderPara \/ RenderReturn \/ Vocabulary

SpecRender == InitRender /\ [][NextRender]_vars

---------------------------------------------------------------------------
(* Plain and ruby renderer, vocabulary section: claims.                    *)

\* A paragraph has been rendered: tokens and pieces are those of paragraph
\* pIdx - 1.
ParagraphRendered ==
    pc \in { "rh_para", "voc_call", "voc_done" } /\ pIdx > 1

\* it is the index entry of key wrapped once: its level's colour around the
\* key itself, with the entry's tooltip.
IsWrappedKey(it, key) ==
    /\ it.k = "pdftooltip"
    /\ it.visible.k = "colorbox"
    /\ it.visible.s = key
    /\ hsk_map[key].level \in 1..6
    /\ it.visible.color = HSK_LEVEL_COLORS[hsk_map[key].level]
    /\ it.tip = hsk_map[key].tip

\* C8: a HanziWord token that is an index key is wrapped exactly once, as one
\* unit, with its entry's level colour and tooltip, and none of its
\* characters is wrapped; otherwise exactly its characters that are keys are
\* wrapped one by one, the others are bare, and the order is kept.
C8_WholeWordBeforeCharacters ==
    ParagraphRendered =>
        /\ Len(pieces) = Len(tokens)
        /\ \A n \in 1..Len(tokens) :
              is_hanzi_word(tokens[n]) =>
                 /\ Len(pieces[n]) = 1
                 /\ pieces[n][1].k = "ruby"
                 /\ LET body == pieces[n][1].body
                    IN  IF tokens[n] \in DOMAIN hsk_map
                        THEN /\ Len(body) = 1
                             /\ IsWrappedKey(body[1], tokens[n])
                        ELSE /\ Len(body) = Len(tokens[n])
                             /\ \A c \in 1..Len(body) :
                                   IF << tokens[n][c] >> \in DOMAIN hsk_map
                                   THEN IsWrappedKey(body[c], << tokens[n][c] >>)
                                   ELSE body[c] = Ch(tokens[n][c])

\* The word U+4F60 U+597D is a key, and so is its first character: the word
\* was wrapped as one unit.
C8_Witness ==
    /\ ParagraphRendered
    /\ tokens = << << 20320, 22909 >> >>
    /\ { << 20320 >>, << 20320, 22909 >> } \subseteq DOMAIN hsk_map
    /\ Len(pieces[1][1].body) = 1
    /\ pieces[1][1].body[1].visible.s = << 20320, 22909 >>

\* The index keys highlighted in the rendered paragraphs.
HighlightedKeys ==
    UNION { UNION { { out[p][n].body[c].visible.s :
                        c \in { d \in 1..Len(out[p][n].body) :
                                  out[p][n].body[d].k = "pdftooltip" } } :
                    n \in { j \in 1..Len(out[p]) : out[p][j].k = "ruby" } } :
            p \in 1..Len(out) }

\* The Hanzi listed in the vocabulary section, in the order listed.
ListedHanzi ==
    Flatten([ g \in 1..Len(vocab) |->
                [ r \in 1..Len(vocab[g].rows) |-> vocab[g].rows[r].hanzi ] ])

\* C9: the Hanzi listed by vocabulary(text) are exactly the index keys that
\* render_hanzi highlights for the text, each listed once, under the group
\* of its entry's level, the groups in ascending level order; and the result
\* is empty when no item is recognized.
C9_VocabularyListsHighlightedKeys ==
    pc = "voc_done" =>
        /\ Range(ListedHanzi) = HighlightedKeys
        /\ Cardinality(Range(ListedHanzi)) = Len(ListedHanzi)
        /\ \A g \in 1..Len(vocab) :
              /\ vocab[g].rows # << >>
              /\ \A r \in 1..Len(vocab[g].rows) :
                    str_level(hsk_map[vocab[g].rows[r].hanzi].level) = vocab[g].level
        /\ \A g \in 1..(Len(vocab) - 1) :
              hsk_map[vocab[g].rows[1].hanzi].level
                 < hsk_map[vocab[g + 1].rows[1].hanzi].level
        /\ HighlightedKeys = { } => vocab = << >>

\* The level-1 word occurs in the text next to a level-2 character, and the
\* section lists both, level 1 first.
C9_Witness ==
    /\ pc = "voc_done"
    /\ text = << 20320, 22909, 22909 >>
    /\ Len(vocab) = 2
    /\ ListedHanzi = << << 20320, 22909 >>, << 22909 >> >>

---------------------------------------------------------------------------
(* Romanization-only renderer: order of the output.                        *)

\* What the tokens put into the output, token by token in paragraph order:
\* a punctuation mark itself, a word's syllables, a Latin run's characters.
InTokenOrder(toks) ==
    Flatten([ n \in 1..Len(toks) |-> UnitOf(toks[n]) ])

\* A paragraph's output without its separators.
WithoutSeparators(o) == SelectSeq(o, LAMBDA it : it # PYWORDSEP)

\* C14: in the output of a paragraph the punctuation characters and the word
\* and Latin units stand in the order of their tokens: attaching a close mark
\* backward and an open mark forward moves no character past another token.
C14_OutputKeepsTokenOrder ==
    (pc = "py_para" /\ pIdx > 1) =>
        WithoutSeparators(out[Len(out)]) = InTokenOrder(tokens)

---------------------------------------------------------------------------
(* The renderers as functions of a whole text, as generate_pdf calls them. *)

\* Does render_hanzi raise KeyError on these paragraphs?
render_raises(paras, m, seg) ==
    \E p \in 1..Len(paras) :
        \E n \in 1..Len(cut_mixed(paras[p], seg)) :
            LET token == cut_mixed(paras[p], seg)[n]
            IN  is_hanzi_word(token) /\ annotate_raises(token, m)

\* render_hanzi(paragraphs, hsk_df, with_ruby): a piece per token, the pieces
\* of a paragraph joined, the paragraphs joined by a blank line.
render_hanzi(paras, df, rubyOn, seg) ==
    LET m == build_hsk_map(df).hsk_map
    IN  join(Text(<< 10, 10 >>),
             [ p \in 1..Len(paras) |->
                 LET toks == cut_mixed(paras[p], seg)
                 IN  Flatten([ n \in 1..Len(toks) |->
                                 render_token(toks[n], m, rubyOn) ]) ])

RECURSIVE pinyin_pieces(_, _, _, _)
\* The token loop of pinyin_only from token n on: the pieces, with what is
\* still pending appended after the last token.
pinyin_pieces(toks, n, pcs, pending) ==
    IF n > Len(toks)
    THEN (IF pending # << >> THEN Append(pcs, Text(pending)) ELSE pcs)
    ELSE LET token  == toks[n]
             branch == branch_of(token)
             sepw   == IF sep_after_word(n, toks) THEN << << PYWORDSEP >> >> ELSE << >>
             sepc   == IF sep_after_close(n, toks) THEN << << PYWORDSEP >> >> ELSE << >>
         IN  IF branch = "hanzi"
             THEN pinyin_pieces(toks, n + 1,
                      Append(pcs, Text(pending) \o romanize(token)) \o sepw, << >>)
             ELSE IF branch = "open"
             THEN pinyin_pieces(toks, n + 1, pcs, pending \o token)
             ELSE IF branch = "close"
             THEN pinyin_pieces(toks, n + 1,
                      (IF pcs # << >>
                       THEN [ pcs EXCEPT ![Len(pcs)] = @ \o Text(token) ]
                       ELSE << Text(token) >>) \o sepc,
                      pending)
             ELSE pinyin_pieces(toks, n + 1,
                      Append(pcs, Text(pending \o token)) \o sepw, << >>)

\* pinyin_only(paragraphs)
pinyin_only(paras, seg) ==
    join(Text(<< 10, 10 >>),
         [ p \in 1..Len(paras) |->
             Flatten(pinyin_pieces(cut_mixed(paras[p], seg), 1, << >>, << >>)) ])

---------------------------------------------------------------------------
(* The markup as the string the functions return.                          *)

\* The colour names of TONE_COLORS and HSK_LEVEL_COLORS, character by
\* character.
ColorName(c) ==
    CASE c = "red"            -> << 114, 101, 100 >>
      [] c = "green!50!black" -> << 103, 114, 101, 101, 110, 33, 53, 48, 33,
                                    98, 108, 97, 99, 107 >>
      [] c = "blue"           -> << 98, 108, 117, 101 >>
      [] c = "orange"         -> << 111, 114, 97, 110, 103, 101 >>
      [] c = "gray"           -> << 103, 114, 97, 121 >>
      [] c = "black"          -> << 98, 108, 97, 99, 107 >>
      [] c = "green!20"       -> << 103, 114, 101, 101, 110, 33, 50, 48 >>
      [] c = "cyan!20"        -> << 99, 121, 97, 110, 33, 50, 48 >>
      [] c = "blue!20"        -> << 98, 108, 117, 101, 33, 50, 48 >>
      [] c = "orange!20"      -> << 111, 114, 97, 110, 103, 101, 33, 50, 48 >>
      [] c = "red!20"         -> << 114, 101, 100, 33, 50, 48 >>
      [] c = "purple!20"      -> << 112, 117, 114, 112, 108, 101, 33, 50, 48 >>

\* "{" + s + "}" of the f-strings.
Braced(s) == << 123 >> \o s \o << 125 >>

RECURSIVE ToLatex(_)
RECURSIVE ItemLatex(_)
\* The string one item stands for, as the f-strings of colorize_pinyin,
\* highlight, tooltip and the renderers build it.
ItemLatex(it) ==
    CASE it.k = "ch"         -> it.s
      [] it.k = "pywordsep"  -> << 92, 112, 121, 119, 111, 114, 100, 115, 101, 112,
                                   123, 125 >>
      [] it.k = "pysyl"      -> << 92, 112, 121, 115, 121, 108 >>
                                \o Braced(ColorName(it.color)) \o Braced(it.s)
      [] it.k = "colorbox"   -> << 92, 98, 101, 103, 105, 110, 103, 114, 111, 117,
                                   112, 92, 115, 101, 116, 108, 101, 110, 103, 116,
                                   104, 123, 92, 102, 98, 111, 120, 115, 101, 112,
                                   125, 123, 48, 112, 116, 125, 92, 99, 111, 108,
                                   111, 114, 98, 111, 120 >>
                                \o Braced(ColorName(it.color)) \o Braced(it.s)
                                \o << 92, 101, 110, 100, 103, 114, 111, 117, 112 >>
      [] it.k = "pdftooltip" -> << 92, 112, 100, 102, 116, 111, 111, 108, 116, 105,
                                   112 >>
                                \o Braced(ItemLatex(it.visible)) \o Braced(it.tip)
      [] it.k = "ruby"       -> << 92, 114, 117, 98, 121 >>
                                \o Braced(ToLatex(it.body)) \o Braced(ToLatex(it.syls))

\* The string a sequence of items stands for.
ToLatex(items) ==
    IF items = << >> THEN << >>
    ELSE ItemLatex(Head(items)) \o ToLatex(Tail(items))

---------------------------------------------------------------------------
(* generate_pdf: filling the template.                                     *)

\* The characters source texts are drawn from: \n, space, U+4F60,
\* fullwidth (, { and }.
SourceAlphabet == { 10, 32, 20320, 65288, 123, 125 }

\* The vocabulary tables: none, or one well-formed row.
DocTables == { << >> } \cup { << r >> : r \in WellFormedRows }

InitDoc ==
    /\ pc = "doc_hanzi"
    /\ text \in SeqsUpTo(SourceAlphabet, MaxSourceLen)
    /\ lcut \in Segmenters(HanziRuns(text)
                           \cup UNION { HanziRuns(parse_paragraphs(text)[n]) :
                                          n \in 1..Len(parse_paragraphs(text)) })
    /\ hsk_df \in DocTables
    /\ paragraphs = << >>
    /\ lineNo = 0 /\ buffer = << >>
    /\ para = << >> /\ pos = 0 /\ tokens = << >> /\ origin = << >>
    /\ rowNo = 0 /\ hsk_map = << >> /\ raised = ""
    /\ IdleTone /\ IdlePinyin /\ IdleOut /\ IdleDoc

\* .replace("<<HANZI>>", render_hanzi(parse_paragraphs(text), hsk_df, with_ruby=False))
FillHanzi ==
    /\ pc = "doc_hanzi"
    /\ paragraphs' = parse_paragraphs(text)
    /\ with_ruby' = FALSE
    /\ IF render_raises(paragraphs', build_hsk_map(hsk_df).hsk_map, lcut)
       THEN /\ raised' = "KeyError" /\ pc' = "doc_raised" /\ UNCHANGED filled
       ELSE /\ filled' = ("HANZI" :> render_hanzi(paragraphs', hsk_df, FALSE, lcut))
            /\ pc' = "doc_ruby"
            /\ UNCHANGED raised
    /\ UNCHANGED << text, lineNo, buffer, hsk_df, rowNo, hsk_map, out, result, vocab,
                    cleanup, xelatex, tmpdir, out_dir, pinyinVars, cutVars, toneVars >>

\* .replace("<<RUBY>>", render_hanzi(parse_paragraphs(text), hsk_df, with_ruby=True))
FillRuby ==
    /\ pc = "doc_ruby"
    /\ paragraphs' = parse_paragraphs(text)
    /\ with_ruby' = TRUE
    /\ filled' = filled @@ ("RUBY" :> render_hanzi(paragraphs', hsk_df, TRUE, lcut))
    /\ pc' = "doc_pinyin"
    /\ UNCHANGED << text, lineNo, buffer, hskVars, out, result, vocab,
                    cleanup, xelatex, tmpdir, out_dir, pinyinVars, cutVars, toneVars >>

\* .replace("<<PINYIN>>", pinyin_only(parse_paragraphs(text)))
FillPinyin ==
    /\ pc = "doc_pinyin"
    /\ paragraphs' = parse_paragraphs(text)
    /\ filled' = filled @@ ("PINYIN" :> pinyin_only(paragraphs', lcut))
    /\ pc' = "doc_vocabulary"
    /\ UNCHANGED << text, lineNo, buffer, hskVars, outVars,
                    cleanup, xelatex, tmpdir, out_dir, pinyinVars, cutVars, toneVars >>

\* vocabulary_section = vocabulary(text, hsk_df); if vocabulary_section:
\* the placeholder is replaced by it.
FillVocabulary ==
    /\ pc = "doc_vocabulary"
    /\ vocabulary(text, hsk_df, lcut) # << >>
    /\ vocab' = vocabulary(text, hsk_df, lcut)
    /\ filled' = filled @@ ("VOCABULARY" :> vocab')
    /\ pc' = "doc_filled"
    /\ UNCHANGED << paraVars, hskVars, out, result, with_ruby,
                    cleanup, xelatex, tmpdir, out_dir, pinyinVars, cutVars, toneVars >>

\* else: the placeholder goes, and the section's heading with it.
DropVocabulary ==
    /\ pc = "doc_vocabulary"
    /\ vocabulary(text, hsk_df, lcut) = << >>
    /\ vocab' = << >>
    /\ filled' = filled @@ ("VOCABULARY" :> << >>)
    /\ pc' = "doc_filled"
    /\ UNCHANGED << paraVars, hskVars, out, result, with_ruby,
                    cleanup, xelatex, tmpdir, out_dir, pinyinVars, cutVars, toneVars >>

NextDoc == FillHanzi \/ FillRuby \/ FillPinyin \/ FillVocabulary \/ DropVocabulary

SpecDoc == InitDoc /\ [][NextDoc]_vars

---------------------------------------------------------------------------
(* Filling the template: claims.                                           *)

\* The text is empty or has only blank lines.
OnlyBlankLines(s) == \A n \in 1..Len(splitlines(s)) : IsBlankLine(splitlines(s)[n])

\* C11: for an empty text and for a text of blank lines only, with a
\* vocabulary table or without, the plain rendering, the ruby rendering, the
\* romanization and the vocabulary section are each the empty string.
C11_BlankTextGivesEmptyOutputs ==
    OnlyBlankLines(text) =>
        \A key \in DOMAIN filled : filled[key] = << >>

\* A text of blank lines that is not empty, with a table, has been filled in.
C11_Witness ==
    /\ pc = "doc_filled"
    /\ text = << 10, 32, 10 >>
    /\ hsk_df # << >>
    /\ DOMAIN filled = { "HANZI", "RUBY", "PINYIN", "VOCABULARY" }

---------------------------------------------------------------------------
(* Filling the template: the markup read as the compiler reads it.         *)

\* The backslashes that stand directly before position k.
BackslashesBefore(s, k) ==
    Cardinality({ j \in 1..(k - 1) : \A n \in j..(k - 1) : s[n] = 92 })

\* The braces that count: the positions of c not escaped by a backslash (an
\* even number of backslashes stands before them).
Unescaped(s, c) ==
    { k \in 1..Len(s) : s[k] = c /\ BackslashesBefore(s, k) % 2 = 0 }

\* The nesting depth after position k, counted from position from on.
brace_depth(s, from, k) ==
    Cardinality(Unescaped(s, 123) \cap from..k)
    - Cardinality(Unescaped(s, 125) \cap from..k)

\* No closing brace without an opening one, and every group closed.
BracesBalanced(s) ==
    /\ \A k \in Unescaped(s, 125) : brace_depth(s, 1, k) >= 0
    /\ brace_depth(s, 1, Len(s)) = 0

\* The position of the brace that closes the group opened at position open,
\* 0 if the string ends first.
closing_brace(s, open) ==
    LET closes == { k \in Unescaped(s, 125) : k > open /\ brace_depth(s, open, k) = 0 }
    IN  IF closes = { } THEN 0
        ELSE CHOOSE k \in closes : \A j \in closes : k <= j

\* The first argument of the \ruby call an item stands for, as the braces
\* delimit it, is the item's body: the wrapper closes around the token.
WrapperClosesAroundBody(it) ==
    LET s     == ItemLatex(it)
        close == closing_brace(s, 6)
    IN  close # 0 /\ Slice(s, 7, close - 1) = ToLatex(it.body)

\* C12: whatever the text, in the plain rendering, the ruby rendering and the
\* romanization the braces are balanced, and every \ruby wrapper closes
\* around exactly the text of its token: no brace of the source text reaches
\* the output unescaped.
C12_MarkupEscapingSafe ==
    \A key \in DOMAIN filled \cap { "HANZI", "RUBY", "PINYIN" } :
        /\ BracesBalanced(ToLatex(filled[key]))
        /\ \A n \in 1..Len(filled[key]) :
              filled[key][n].k = "ruby" => WrapperClosesAroundBody(filled[key][n])

---------------------------------------------------------------------------
(* generate_pdf: compiling in a temporary directory.  Files are named by   *)
(* their extension: all carry the job name.                                *)

\* for ext in (".aux", ".log", ".tex")
Intermediates == { "aux", "log", "tex" }

\* What one run of xelatex can leave in its output directory.
XelatexWrites == SUBSET { "aux", "log", "pdf" }

\* How subprocess.run(..., check=True) can end: exit status 0, a non-zero
\* exit status (CalledProcessError), or no xelatex to start (OSError).
XelatexRuns ==
    { [ status |-> st, wrote |-> w ] : st \in { "ok", "failed" }, w \in XelatexWrites }
    \cup { [ status |-> "absent", wrote |-> { } ] }

\* The directory once the with block is left: gone, with all its files.
Released == [ state |-> "released", files |-> { } ]

\* The copy loop: every intermediate file that exists in the temporary
\* directory is copied into the output directory.
copy_intermediates(dir, into) == into \cup (dir.files \cap Intermediates)

InitGen ==
    /\ pc = "gen_call"
    /\ cleanup \in BOOLEAN
    /\ out_dir \in SUBSET { "pdf", "txt" }
    /\ xelatex = NoRun
    /\ tmpdir = NoDir
    /\ filled = << >>
    /\ IdleTone /\ IdlePara /\ IdleCut /\ IdleHsk /\ IdlePinyin /\ IdleOut

\* with tempfile.TemporaryDirectory() as tmpdir: tex_file.write_text(filled)
WriteTex ==
    /\ pc = "gen_call"
    /\ tmpdir' = [ state |-> "open", files |-> { "tex" } ]
    /\ pc' = "gen_run"
    /\ UNCHANGED << filled, cleanup, xelatex, out_dir, toneVars, paraVars, cutVars,
                    hskVars, pinyinVars, outVars >>

\* subprocess.run(["xelatex", ...], check=True)
RunXelatex ==
    /\ pc = "gen_run"
    /\ \E run \in XelatexRuns :
          /\ xelatex' = run
          /\ tmpdir' = [ tmpdir EXCEPT !.files = @ \cup run.wrote ]
          /\ pc' = CASE run.status = "ok"     -> "gen_pdf"
                     [] run.status = "failed" -> "gen_except"
                     [] run.status = "absent" -> "gen_absent"
    /\ UNCHANGED << filled, cleanup, out_dir, toneVars, paraVars, cutVars,
                    hskVars, pinyinVars, outVars >>

\* The exception of a compiler that could not be started leaves the with
\* block.
RaiseOSError ==
    /\ pc = "gen_absent"
    /\ tmpdir' = Released
    /\ pc' = "gen_OSError"
    /\ UNCHANGED << filled, cleanup, xelatex, out_dir, toneVars, paraVars, cutVars,
                    hskVars, pinyinVars, outVars >>

\* A variant of the except branch that copies only when cleanup is off.
CopyForDebugging_gated ==
    /\ pc = "gen_except"
    /\ out_dir' = IF cleanup THEN out_dir ELSE copy_intermediates(tmpdir, out_dir)
    /\ tmpdir' = Released
    /\ pc' = "gen_RuntimeError"
    /\ UNCHANGED << filled, cleanup, xelatex, toneVars, paraVars, cutVars,
                    hskVars, pinyinVars, outVars >>

\* except subprocess.CalledProcessError: copy the auxiliary files for
\* debugging, then raise RuntimeError, which leaves the with block.
CopyForDebugging ==
    /\ pc = "gen_except"
    /\ out_dir' = copy_intermediates(tmpdir, out_dir)
    /\ tmpdir' = Released
    /\ pc' = "gen_RuntimeError"
    /\ UNCHANGED << filled, cleanup, xelatex, toneVars, paraVars, cutVars,
                    hskVars, pinyinVars, outVars >>

\* if not produced_pdf.exists(): raise FileNotFoundError
RaiseNoPdf ==
    /\ pc = "gen_pdf"
    /\ "pdf" \notin tmpdir.files
    /\ tmpdir' = Released
    /\ pc' = "gen_FileNotFoundError"
    /\ UNCHANGED << filled, cleanup, xelatex, out_dir, toneVars, paraVars, cutVars,
                    hskVars, pinyinVars, outVars >>

\* shutil.move(produced_pdf, filename)
MovePdf ==
    /\ pc = "gen_pdf"
    /\ "pdf" \in tmpdir.files
    /\ out_dir' = out_dir \cup { "pdf" }
    /\ tmpdir' = [ tmpdir EXCEPT !.files = @ \ { "pdf" } ]
    /\ pc' = "gen_moved"
    /\ UNCHANGED << filled, cleanup, xelatex, toneVars, paraVars, cutVars,
                    hskVars, pinyinVars, outVars >>

\* if not cleanup: preserve the aux/log/tex files alongside the PDF; the
\* with block ends.
KeepIntermediates ==
    /\ pc = "gen_moved"
    /\ ~cleanup
    /\ out_dir' = copy_intermediates(tmpdir, out_dir)
    /\ tmpdir' = Released
    /\ pc' = "gen_done"
    /\ UNCHANGED << filled, cleanup, xelatex, toneVars, paraVars, cutVars,
                    hskVars, pinyinVars, outVars >>

\* cleanup: nothing is copied; the with block ends.
DropIntermediates ==
    /\ pc = "gen_moved"
    /\ cleanup
    /\ tmpdir' = Released
    /\ pc' = "gen_done"
    /\ UNCHANGED << filled, cleanup, xelatex, out_dir, toneVars, paraVars, cutVars,
                    hskVars, pinyinVars, outVars >>

NextGen ==
    \/ WriteTex \/ RunXelatex \/ RaiseOSError \/ CopyForDebugging \/ RaiseNoPdf
    \/ MovePdf \/ KeepIntermediates \/ DropIntermediates

SpecGen == InitGen /\ [][NextGen]_vars

---------------------------------------------------------------------------
(* Compiling in a temporary directory: claims.                             *)

\* generate_pdf has returned or raised.
Exited ==
    pc \in { "gen_done", "gen_RuntimeError", "gen_FileNotFoundError", "gen_OSError" }

\* The intermediate files the run left in the temporary directory.
Produced == ({ "tex" } \cup xelatex.wrote) \cap Intermediates

\* The intermediate files now in the output directory.
Left == out_dir \cap Intermediates

===========================================================================
